---------------------------- MODULE Spec2Model ----------------------------
(***************************************************************************)
(* Model of src/hooks/usePushNotifications.ts: the Registration Procedure  *)
(* (registerForPushNotificationsAsync), the Notification Session (the hook *)
(* usePushNotifications with its process-wide guard areListenersReady) and *)
(* the outbound sendPushNotification.                                      *)
(*                                                                         *)
(* JavaScript values.  An optional value (null / undefined or a value) is  *)
(* a sequence of length 0 or 1.  A thrown Error is a record                *)
(* [name, message].  Every await of the code is a suspension point, so the *)
(* code between two awaits is one atomic step of one action.               *)
(*                                                                         *)
(* Collaborators (expo-notifications, expo-device, expo-constants, fetch)  *)
(* answer as their interfaces say: a permission status is one of granted,  *)
(* denied, undetermined; getExpoPushTokenAsync returns a token or throws;  *)
(* fetch resolves with a response of any HTTP status or rejects on a       *)
(* network failure.  A state setter of useState is modelled as the write   *)
(* of the value passed to it into the hook instance's state cell.          *)
(***************************************************************************)
EXTENDS Naturals, Sequences, FiniteSets, TLC

VARIABLES
    platformOS,           \* Platform.OS
    isDevice,             \* Device.isDevice
    expoConfigProjectId,  \* Constants?.expoConfig?.extra?.eas?.projectId
    easConfigProjectId,   \* Constants?.easConfig?.projectId
    osPermission,         \* the OS's notification permission status
    areListenersReady,    \* the module-level guard
    phase,                \* per view: "unmounted", "mounted", "torn"
    expoPushToken,        \* per view: useState("")
    notifications,        \* per view: useState([])
    captured,             \* per view: `notifications` as closed over by the listener
    receivedListeners,    \* views owning an active 'notification received' subscription
    responseListeners,    \* views owning an active 'notification response' subscription
    reg,                  \* per view: the invocation of registerForPushNotificationsAsync
    activations,          \* history: the views in the order they were activated
    delivered,            \* history, per view: the records its listener was called with
    arrivals,             \* notifications handed to a listener so far
    consoleLog,           \* responses written by console.log(response)
    send,                 \* the current call of sendPushNotification
    sendCalls             \* calls of sendPushNotification made so far

hookVars == <<areListenersReady, phase, expoPushToken, notifications, captured,
              receivedListeners, responseListeners, activations, delivered,
              arrivals, consoleLog>>
envVars == <<platformOS, isDevice, expoConfigProjectId, easConfigProjectId>>
sendVars == <<send, sendCalls>>
vars == <<envVars, osPermission, hookVars, reg, sendVars>>

\* ------------------------------------------------------------------ bounds

MaxViews == 2
MaxArrivals == 3
MaxResponses == 1
MaxSends == 2

Views == 1..MaxViews
PermissionStatuses == {"granted", "denied", "undetermined"}
Tokens == {"ExponentPushToken[abc123]"}

\* ------------------------------------------------------- JavaScript values

Nothing == <<>>
Some(x) == <<x>>

\* a ?? b
Coalesce(a, b) == IF a # Nothing THEN a ELSE b

\* !x for an optional string: null, undefined and "" are falsy
Falsy(x) == x = Nothing \/ x[1] = ""

Error(message) == [name |-> "Error", message |-> message]

\* `${error}` for an Error object: Error.prototype.toString
ErrorToString(error) ==
    IF error.message = "" THEN error.name
    ELSE error.name \o ": " \o error.message

\* What the provider's getExpoPushTokenAsync may throw.
ProviderErrors == {Error("network down"), Error("")}

\* -------------------------------------------- the Registration Procedure

NotInvoked ==
    [pc |-> "idle", calls |-> 0, channelCalls |-> 0, permQueries |-> 0,
     permRequests |-> 0, projectIdReads |-> 0, tokenFetches |-> 0,
     alerts |-> 0, existingStatus |-> Nothing, finalStatus |-> Nothing,
     projectId |-> Nothing, providerData |-> Nothing, providerError |-> Nothing,
     result |-> Nothing, error |-> Nothing, handledWhile |-> Nothing]

\* mutant: the error is thrown without the alert
handleRegistrationErrorWithoutAlert(r, errorMessage) ==
    [r EXCEPT !.pc = "rejected", !.error = Some(Error(errorMessage))]

\* handleRegistrationError: alert(errorMessage); throw new Error(errorMessage).
\* Nothing in registerForPushNotificationsAsync catches the throw, so the
\* invocation's promise rejects with it.
handleRegistrationError(r, errorMessage) ==
    [r EXCEPT !.alerts = @ + 1, !.pc = "rejected",
              !.error = Some(Error(errorMessage))]

\* mutant: the device check is left out
DeviceCheckSkipped == TRUE

\* Device.isDevice
IsPhysicalDevice == isDevice

\* if (Device.isDevice) { await getPermissionsAsync() ... } else { handleRegistrationError(...) }
AfterChannel(r) ==
    IF IsPhysicalDevice
    THEN [r EXCEPT !.pc = "getPerm", !.permQueries = @ + 1]
    ELSE handleRegistrationError(r, "Must use physical device for push notifications")

\* the call itself, up to its first await
registerForPushNotificationsAsync(r) ==
    LET r1 == [r EXCEPT !.calls = @ + 1] IN
    IF platformOS = "android"
    THEN [r1 EXCEPT !.pc = "channel", !.channelCalls = @ + 1]
    ELSE AfterChannel(r1)

\* mutant: the permission is requested whatever the existing status
AlwaysRequest(existingStatus) == TRUE

\* existingStatus !== "granted"
NeedsRequest(existingStatus) == existingStatus # "granted"

\* Constants?.expoConfig?.extra?.eas?.projectId ?? Constants?.easConfig?.projectId
ResolveProjectId == Coalesce(expoConfigProjectId, easConfigProjectId)

\* mutant: only a null or undefined project id counts as missing
ProjectIdNullOnly(projectId) == projectId = Nothing

\* if (!projectId)
ProjectIdMissing(projectId) == Falsy(projectId)

\* mutant: only an explicit refusal counts as permission not granted
PermissionDeniedOnly(finalStatus) == finalStatus = "denied"

\* finalStatus !== "granted"
PermissionNotGranted(finalStatus) == finalStatus # "granted"

\* from `if (finalStatus !== "granted")` to the await of getExpoPushTokenAsync
AfterPermission(r, finalStatus) ==
    LET r1 == [r EXCEPT !.finalStatus = Some(finalStatus)] IN
    IF PermissionNotGranted(finalStatus)
    THEN handleRegistrationError(r1,
            "Permission not granted to get push token for push notification!")
    ELSE LET projectId == ResolveProjectId
             r2 == [r1 EXCEPT !.projectIdReads = @ + 1, !.projectId = projectId]
         IN  IF ProjectIdMissing(projectId)
             THEN handleRegistrationError(r2, "Project ID not found")
             ELSE [r2 EXCEPT !.pc = "fetch", !.tokenFetches = @ + 1]

\* return pushTokenString
ReturnToken(r, data) ==
    [r EXCEPT !.pc = "fulfilled", !.providerData = Some(data), !.result = Some(data)]

\* mutant: the catch block fetches the token a second time
CatchProviderErrorRetrying(r, error) ==
    IF r.tokenFetches < 2
    THEN [r EXCEPT !.pc = "fetch", !.tokenFetches = @ + 1]
    ELSE handleRegistrationError([r EXCEPT !.providerError = Some(error)],
                                 ErrorToString(error))

\* catch (error) { handleRegistrationError(`${error}`) }
CatchProviderError(r, error) ==
    handleRegistrationError([r EXCEPT !.providerError = Some(error)],
                            ErrorToString(error))

\* await Notifications.setNotificationChannelAsync(...) resolves
ChannelDone(v) ==
    /\ reg[v].pc = "channel"
    /\ reg' = [reg EXCEPT ![v] = AfterChannel(reg[v])]
    /\ UNCHANGED <<envVars, osPermission, hookVars, sendVars>>

\* await Notifications.getPermissionsAsync() resolves
GetPermissionsDone(v) ==
    /\ reg[v].pc = "getPerm"
    /\ LET r1 == [reg[v] EXCEPT !.existingStatus = Some(osPermission)] IN
       reg' = [reg EXCEPT ![v] =
                  IF NeedsRequest(osPermission)
                  THEN [r1 EXCEPT !.pc = "reqPerm", !.permRequests = @ + 1]
                  ELSE AfterPermission(r1, osPermission)]
    /\ UNCHANGED <<envVars, osPermission, hookVars, sendVars>>

\* await Notifications.requestPermissionsAsync() resolves with the user's answer
RequestPermissionsDone(v) ==
    /\ reg[v].pc = "reqPerm"
    /\ \E status \in PermissionStatuses :
          /\ osPermission' = status
          /\ reg' = [reg EXCEPT ![v] = AfterPermission(reg[v], status)]
    /\ UNCHANGED <<envVars, hookVars, sendVars>>

\* await Notifications.getExpoPushTokenAsync({projectId}) resolves
TokenFetchSucceeds(v) ==
    /\ reg[v].pc = "fetch"
    /\ \E data \in Tokens : reg' = [reg EXCEPT ![v] = ReturnToken(reg[v], data)]
    /\ UNCHANGED <<envVars, osPermission, hookVars, sendVars>>

\* await Notifications.getExpoPushTokenAsync({projectId}) throws
TokenFetchFails(v) ==
    /\ reg[v].pc = "fetch"
    /\ \E error \in ProviderErrors :
          reg' = [reg EXCEPT ![v] = CatchProviderError(reg[v], error)]
    /\ UNCHANGED <<envVars, osPermission, hookVars, sendVars>>


\* ------------------------------------- the Notification Session (the hook)

\* mutant: the registration effect declared after the listener effect, so
\* that it reads the guard the listener effect has just set
RegistrationEffectRunsSecond == FALSE

\* mutant: the registration effect without its guard check
RegistrationEffectUnguarded == TRUE

\* first effect: if (areListenersReady) return
RegistrationEffectRuns == ~areListenersReady

\* mutant: the listener effect without its guard check
ListenerEffectUnguarded == TRUE

\* second effect: if (areListenersReady) return
ListenerEffectRuns == ~areListenersReady

\* The view renders and React runs its two effects in declaration order: the
\* registration effect reads the guard before the listener effect sets it.
\* The listener closes over `notifications` of this first render.
Mount(v) ==
    /\ phase[v] = "unmounted"
    /\ phase' = [phase EXCEPT ![v] = "mounted"]
    /\ activations' = Append(activations, v)
    /\ reg' = IF RegistrationEffectRuns
              THEN [reg EXCEPT ![v] = registerForPushNotificationsAsync(reg[v])]
              ELSE reg
    /\ IF ListenerEffectRuns
       THEN /\ areListenersReady' = TRUE
            /\ receivedListeners' = receivedListeners \cup {v}
            /\ responseListeners' = responseListeners \cup {v}
            /\ captured' = [captured EXCEPT ![v] = notifications[v]]
       ELSE UNCHANGED <<areListenersReady, receivedListeners, responseListeners,
                        captured>>
    /\ UNCHANGED <<envVars, osPermission, expoPushToken, notifications, delivered,
                   arrivals, consoleLog, sendVars>>

\* mutant: the cleanup removes the received listener only
UnmountKeepingResponseListener(v) ==
    /\ phase[v] = "mounted"
    /\ phase' = [phase EXCEPT ![v] = "torn"]
    /\ receivedListeners' = receivedListeners \ {v}
    /\ UNCHANGED <<envVars, osPermission, areListenersReady, expoPushToken,
                   notifications, captured, responseListeners, activations,
                   delivered, arrivals, consoleLog, reg, sendVars>>

\* mutant: the cleanup also resets the guard
UnmountResettingGuard(v) ==
    /\ phase[v] = "mounted"
    /\ phase' = [phase EXCEPT ![v] = "torn"]
    /\ receivedListeners' = receivedListeners \ {v}
    /\ responseListeners' = responseListeners \ {v}
    /\ areListenersReady' = (areListenersReady /\ v \notin receivedListeners)
    /\ UNCHANGED <<envVars, osPermission, expoPushToken, notifications, captured,
                   activations, delivered, arrivals, consoleLog, reg, sendVars>>

\* The cleanup the listener effect returned: notificationListener.remove();
\* responseListener.remove().  An activation whose effect returned early has
\* no cleanup.  The guard is left as it is.
Unmount(v) ==
    /\ phase[v] = "mounted"
    /\ phase' = [phase EXCEPT ![v] = "torn"]
    /\ receivedListeners' = receivedListeners \ {v}
    /\ responseListeners' = responseListeners \ {v}
    /\ UNCHANGED <<envVars, osPermission, areListenersReady, expoPushToken,
                   notifications, captured, activations, delivered, arrivals,
                   consoleLog, reg, sendVars>>

\* Each arriving notification is a record of its own: the k-th to arrive is
\* identified by k.
NextRecord == arrivals + 1

\* (notification) => setNotifications([notification, ...notifications])
OnNotification(notification, closedOver) == <<notification>> \o closedOver

\* A notification arrives and the active 'notification received' listeners are
\* called with it.  With no listener attached the event reaches no code.
NotificationReceived(notification) ==
    /\ arrivals < MaxArrivals
    /\ receivedListeners # {}
    /\ arrivals' = arrivals + 1
    /\ notifications' =
          [v \in Views |->
              IF v \in receivedListeners
              THEN OnNotification(notification, captured[v])
              ELSE notifications[v]]
    /\ delivered' =
          [v \in Views |->
              IF v \in receivedListeners
              THEN Append(delivered[v], notification)
              ELSE delivered[v]]
    /\ UNCHANGED <<envVars, osPermission, areListenersReady, phase, expoPushToken,
                   captured, receivedListeners, responseListeners, activations,
                   consoleLog, reg, sendVars>>

\* mutant: the response handler clears the stored notifications
ResponseReceivedClearingList ==
    /\ responseListeners # {}
    /\ consoleLog < MaxResponses
    /\ consoleLog' = consoleLog + Cardinality(responseListeners)
    /\ notifications' =
          [v \in Views |-> IF v \in responseListeners THEN <<>> ELSE notifications[v]]
    /\ UNCHANGED <<envVars, osPermission, areListenersReady, phase, expoPushToken,
                   captured, receivedListeners, responseListeners, activations,
                   delivered, arrivals, reg, sendVars>>

\* The user interacts with a notification: (response) => console.log(response)
ResponseReceived ==
    /\ responseListeners # {}
    /\ consoleLog < MaxResponses
    /\ consoleLog' = consoleLog + Cardinality(responseListeners)
    /\ UNCHANGED <<envVars, osPermission, areListenersReady, phase, expoPushToken,
                   notifications, captured, receivedListeners, responseListeners,
                   activations, delivered, arrivals, reg, sendVars>>

\* .then((token) => setExpoPushToken(token ?? ""))
OnFulfilled(token) == Coalesce(token, Some(""))[1]

\* mutant: the error's message is stored instead of the stringified error
OnRejectedMessageOnly(error) == error.message

\* .catch((error) => setExpoPushToken(`${error}`))
OnRejected(error) == ErrorToString(error)

\* mutant: the setter is skipped once the view has been torn down
SetExpoPushTokenIfMounted(v, value) ==
    IF phase[v] = "mounted"
    THEN [expoPushToken EXCEPT ![v] = value]
    ELSE expoPushToken

\* setExpoPushToken(value) of view v: the callbacks call it without asking
\* whether the view is still mounted
SetExpoPushToken(v, value) == [expoPushToken EXCEPT ![v] = value]

\* The promise's reactions run whatever the view's phase; handledWhile records
\* the phase they ran in.
ThenHandler(v) ==
    /\ reg[v].pc = "fulfilled"
    /\ expoPushToken' = SetExpoPushToken(v, OnFulfilled(reg[v].result))
    /\ reg' = [reg EXCEPT ![v].pc = "settled", ![v].handledWhile = Some(phase[v])]
    /\ UNCHANGED <<envVars, osPermission, areListenersReady, phase, notifications,
                   captured, receivedListeners, responseListeners, activations,
                   delivered, arrivals, consoleLog, sendVars>>

CatchHandler(v) ==
    /\ reg[v].pc = "rejected"
    /\ expoPushToken' = SetExpoPushToken(v, OnRejected(reg[v].error[1]))
    /\ reg' = [reg EXCEPT ![v].pc = "settled", ![v].handledWhile = Some(phase[v])]
    /\ UNCHANGED <<envVars, osPermission, areListenersReady, phase, notifications,
                   captured, receivedListeners, responseListeners, activations,
                   delivered, arrivals, consoleLog, sendVars>>

\* ---------------------------------------------------- sendPushNotification

SendOptions ==
    [to : {<<"tok1">>, <<"tok1", "tok2">>}, title : {"T", "U"}, body : {"B", ""},
     data : {Nothing, Some("d")}]

HttpStatuses == {200, 400, 500}

NetworkErrors == {[name |-> "TypeError", message |-> "Network request failed"]}

\* const message = {to, sound: "default", title, body, data}
Message(options) ==
    [to |-> options.to, sound |-> "default", title |-> options.title,
     body |-> options.body, data |-> options.data]

\* JSON.stringify(message): a member whose value is undefined is left out
JSONStringify(message) ==
    IF message.data = Nothing
    THEN [to |-> message.to, sound |-> message.sound, title |-> message.title,
          body |-> message.body]
    ELSE [to |-> message.to, sound |-> message.sound, title |-> message.title,
          body |-> message.body, data |-> message.data[1]]

\* fetch("https://exp.host/--/api/v2/push/send", {method: "POST", headers, body})
PushRequest(options) ==
    [url |-> "https://exp.host/--/api/v2/push/send", method |-> "POST",
     headers |-> [Accept |-> "application/json",
                  AcceptEncoding |-> "gzip, deflate",
                  ContentType |-> "application/json"],
     body |-> JSONStringify(Message(options))]

NoSend ==
    [pc |-> "idle", options |-> Nothing, posts |-> <<>>, status |-> Nothing,
     error |-> Nothing]

\* the call, up to `await fetch(...)`
sendPushNotification(options) ==
    [pc |-> "awaiting", options |-> Some(options),
     posts |-> <<PushRequest(options)>>, status |-> Nothing, error |-> Nothing]

\* mutant: the response is checked and an error status throws
OnResponseThrowingOnErrorStatus(s, status) ==
    IF status >= 400
    THEN [s EXCEPT !.pc = "rejected", !.status = Some(status),
                   !.error = Some(Error("HTTP error"))]
    ELSE [s EXCEPT !.pc = "fulfilled", !.status = Some(status)]

\* `await fetch(...)` resolves with a response; the response is not looked at
OnResponse(s, status) == [s EXCEPT !.pc = "fulfilled", !.status = Some(status)]

\* mutant: the rejection of fetch is caught and dropped
OnNetworkFailureSwallowed(s, error) == [s EXCEPT !.pc = "fulfilled"]

\* `await fetch(...)` rejects; nothing catches it, so the call's promise rejects
OnNetworkFailure(s, error) == [s EXCEPT !.pc = "rejected", !.error = Some(error)]

SendCall ==
    /\ send.pc # "awaiting"
    /\ sendCalls < MaxSends
    /\ sendCalls' = sendCalls + 1
    /\ \E options \in SendOptions : send' = sendPushNotification(options)
    /\ UNCHANGED <<envVars, osPermission, hookVars, reg>>

FetchResolves ==
    /\ send.pc = "awaiting"
    /\ \E status \in HttpStatuses : send' = OnResponse(send, status)
    /\ UNCHANGED <<envVars, osPermission, hookVars, reg, sendCalls>>

FetchRejects ==
    /\ send.pc = "awaiting"
    /\ \E error \in NetworkErrors : send' = OnNetworkFailure(send, error)
    /\ UNCHANGED <<envVars, osPermission, hookVars, reg, sendCalls>>

\* --------------------------------------------------------- specifications

OptionalProjectIds == {Nothing, Some(""), Some("project-1")}

Init ==
    /\ platformOS \in {"android", "ios"}
    /\ isDevice \in BOOLEAN
    /\ expoConfigProjectId \in OptionalProjectIds
    /\ easConfigProjectId \in {Nothing, Some("project-2")}
    /\ osPermission \in PermissionStatuses
    /\ areListenersReady = FALSE
    /\ phase = [v \in Views |-> "unmounted"]
    /\ expoPushToken = [v \in Views |-> ""]
    /\ notifications = [v \in Views |-> <<>>]
    /\ captured = [v \in Views |-> <<>>]
    /\ receivedListeners = {}
    /\ responseListeners = {}
    /\ reg = [v \in Views |-> NotInvoked]
    /\ activations = <<>>
    /\ delivered = [v \in Views |-> <<>>]
    /\ arrivals = 0
    /\ consoleLog = 0
    /\ send = NoSend
    /\ sendCalls = 0

Next ==
    \/ \E v \in Views : Mount(v)
    \/ \E v \in Views : Unmount(v)
    \/ NotificationReceived(NextRecord)
    \/ ResponseReceived
    \/ \E v \in Views : ChannelDone(v)
    \/ \E v \in Views : GetPermissionsDone(v)
    \/ \E v \in Views : RequestPermissionsDone(v)
    \/ \E v \in Views : TokenFetchSucceeds(v)
    \/ \E v \in Views : TokenFetchFails(v)
    \/ \E v \in Views : ThenHandler(v)
    \/ \E v \in Views : CatchHandler(v)

Spec == Init /\ [][Next]_vars

\* A promise's reactions run from the microtask queue once it has settled.
FairSpec ==
    /\ Spec
    /\ \A v \in Views : WF_vars(ThenHandler(v)) /\ WF_vars(CatchHandler(v))

\* sendPushNotification on its own: the hook only hands the function out.
SendInit ==
    /\ platformOS = "ios"
    /\ isDevice = TRUE
    /\ expoConfigProjectId = Some("project-1")
    /\ easConfigProjectId = Nothing
    /\ osPermission = "granted"
    /\ areListenersReady = FALSE
    /\ phase = [v \in Views |-> "unmounted"]
    /\ expoPushToken = [v \in Views |-> ""]
    /\ notifications = [v \in Views |-> <<>>]
    /\ captured = [v \in Views |-> <<>>]
    /\ receivedListeners = {}
    /\ responseListeners = {}
    /\ reg = [v \in Views |-> NotInvoked]
    /\ activations = <<>>
    /\ delivered = [v \in Views |-> <<>>]
    /\ arrivals = 0
    /\ consoleLog = 0
    /\ send = NoSend
    /\ sendCalls = 0

SendNext == SendCall \/ FetchResolves \/ FetchRejects

SendSpec == SendInit /\ [][SendNext]_vars

\* ----------------------------------------------------------------- claims

\* a sequence, last element first
RECURSIVE Reverse(_)
Reverse(s) == IF s = <<>> THEN <<>> ELSE Append(Reverse(Tail(s)), Head(s))

\* C1: while the 'notification received' listener of a view is attached, its
\* stored list holds every record delivered to it, newest first (after A, B,
\* C the list is [C, B, A]).
NewestFirstAccumulation ==
    \A v \in Views : notifications[v] = Reverse(delivered[v])

\* C2: after two activations of the hook there is exactly one active
\* 'notification received' listener (not zero, not two).
ExactlyOneListenerAfterTwoActivations ==
    Len(activations) >= 2 => Cardinality(receivedListeners) = 1

\* C3: the first activation invokes the Registration Procedure exactly once
\* (and no other activation invokes it); the exposed token is "" until the
\* invocation's promise is handled; a token the procedure returned is
\* eventually the exposed token.
FirstActivationRegistersOnce ==
    /\ [](\A v \in Views :
            /\ (activations # <<>> /\ v = activations[1]) => reg[v].calls = 1
            /\ (activations = <<>> \/ v # activations[1]) => reg[v].calls = 0
            /\ reg[v].pc # "settled" => expoPushToken[v] = "")
    /\ \A v \in Views : \A t \in Tokens :
          (reg[v].pc = "fulfilled" /\ reg[v].result = Some(t))
             ~> (reg[v].pc = "settled" /\ expoPushToken[v] = t)

FirstActivationTokenStored ==
    /\ activations # <<>>
    /\ reg[activations[1]].pc = "settled"
    /\ reg[activations[1]].calls = 1
    /\ expoPushToken[activations[1]] = "ExponentPushToken[abc123]"

\* C4: a failed registration is handled by the hook's catch: the exposed
\* token becomes "Error: <message>", and that step changes neither the
\* notification lists, nor the listeners, nor the guard, nor the views.
RegistrationFailureIsCaught ==
    /\ [](\A v \in Views :
            (reg[v].pc = "settled" /\ reg[v].error # Nothing)
               => expoPushToken[v] = "Error: " \o reg[v].error[1].message)
    /\ [][\A v \in Views :
            (reg[v].pc = "rejected" /\ reg'[v] # reg[v])
               => /\ reg'[v].pc = "settled"
                  /\ UNCHANGED <<notifications, receivedListeners,
                                 responseListeners, areListenersReady, phase>>]_vars

RegistrationFailureShown ==
    \E v \in Views :
       /\ reg[v].pc = "settled"
       /\ expoPushToken[v] = "Error: Project ID not found"
       /\ v \in receivedListeners
       /\ notifications[v] # <<>>

\* C5: on a non-physical device an invocation fails with the
\* not-physical-device error and performs no permission query, no permission
\* request, no project-id resolution and no token fetch.
NonPhysicalDeviceFailsFirst ==
    \A v \in Views :
       (~isDevice /\ reg[v].calls > 0)
          => /\ reg[v].permQueries = 0
             /\ reg[v].permRequests = 0
             /\ reg[v].projectIdReads = 0
             /\ reg[v].tokenFetches = 0
             /\ reg[v].result = Nothing
             /\ reg[v].pc # "channel"
                   => /\ reg[v].pc \in {"rejected", "settled"}
                      /\ reg[v].error =
                            Some(Error("Must use physical device for push notifications"))

NonPhysicalDeviceRejected ==
    \E v \in Views :
       /\ ~isDevice
       /\ reg[v].pc = "rejected"
       /\ reg[v].channelCalls = 1

\* C6: when neither configuration source holds a project identifier, an
\* invocation that gets to resolve it fails with "Project ID not found" and
\* never calls the provider's token fetch.
MissingProjectIdFailsBeforeFetch ==
    \A v \in Views :
       (Falsy(expoConfigProjectId) /\ Falsy(easConfigProjectId))
          => /\ reg[v].tokenFetches = 0
             /\ reg[v].pc # "fetch"
             /\ reg[v].result = Nothing
             /\ reg[v].projectIdReads > 0
                   => /\ reg[v].pc \in {"rejected", "settled"}
                      /\ reg[v].error = Some(Error("Project ID not found"))

MissingProjectIdRejected ==
    \E v \in Views :
       /\ expoConfigProjectId = Nothing
       /\ easConfigProjectId = Nothing
       /\ reg[v].projectIdReads = 1
       /\ reg[v].pc = "rejected"

\* The four failure conditions of an invocation, read off what it observed.
NotPhysicalDeviceSeen(r) == r.calls > 0 /\ r.pc # "channel" /\ ~isDevice
PermissionNotGrantedSeen(r) == r.finalStatus # Nothing /\ r.finalStatus # Some("granted")
MissingProjectIdSeen(r) == r.projectIdReads > 0 /\ Falsy(r.projectId)
ProviderErrorSeen(r) == r.providerError # Nothing
FailureSeen(r) ==
    \/ NotPhysicalDeviceSeen(r)
    \/ PermissionNotGrantedSeen(r)
    \/ MissingProjectIdSeen(r)
    \/ ProviderErrorSeen(r)

\* C7: an invocation that meets one of the four failure conditions has
\* raised the OS alert exactly once and has ended with a thrown error; an
\* invocation that returned a token has raised no alert and no error.
EveryFailureAlertsOnceAndThrows ==
    \A v \in Views :
       /\ FailureSeen(reg[v])
             => /\ reg[v].alerts = 1
                /\ reg[v].error # Nothing
                /\ reg[v].result = Nothing
                /\ reg[v].pc \in {"rejected", "settled"}
       /\ reg[v].result # Nothing
             => /\ reg[v].alerts = 0
                /\ reg[v].error = Nothing
       /\ ~FailureSeen(reg[v]) => reg[v].alerts = 0

ProviderFailureAlerted ==
    \E v \in Views :
       /\ ProviderErrorSeen(reg[v])
       /\ reg[v].alerts = 1
       /\ reg[v].error = Some(Error("Error: network down"))

\* C8: on a physical device with permission already granted and a project
\* id that resolves, a provider response makes the invocation return exactly
\* the provider's token, and the permission request was never issued.
GrantedRegistrationReturnsProviderToken ==
    \A v \in Views :
       /\ (reg[v].existingStatus = Some("granted") /\ reg[v].calls > 0)
             => reg[v].permRequests = 0
       /\ (reg[v].existingStatus = Some("granted") /\ reg[v].providerData # Nothing)
             => /\ reg[v].pc \in {"fulfilled", "settled"}
                /\ reg[v].result = reg[v].providerData
                /\ reg[v].result \in {Some(t) : t \in Tokens}

GrantedRegistrationReturned ==
    \E v \in Views :
       /\ isDevice
       /\ reg[v].existingStatus = Some("granted")
       /\ reg[v].pc = "fulfilled"
       /\ reg[v].result = Some("ExponentPushToken[abc123]")

\* the envelope {to, sound: "default", title, body, data} of a call's options
Envelope(options) ==
    IF options.data = Nothing
    THEN [to |-> options.to, sound |-> "default", title |-> options.title,
          body |-> options.body]
    ELSE [to |-> options.to, sound |-> "default", title |-> options.title,
          body |-> options.body, data |-> options.data[1]]

\* C9: a call of sendPushNotification issues exactly one POST carrying the
\* envelope, and once a response of any HTTP status is in, the call has
\* completed without an error.
SendIssuesOnePostAndIgnoresStatus ==
    send.pc # "idle"
       => /\ Len(send.posts) = 1
          /\ send.posts[1].method = "POST"
          /\ send.posts[1].url = "https://exp.host/--/api/v2/push/send"
          /\ send.posts[1].body = Envelope(send.options[1])
          /\ send.status # Nothing
                => /\ send.pc = "fulfilled"
                   /\ send.error = Nothing

SendCompletedOnServerError ==
    /\ send.pc = "fulfilled"
    /\ send.status = Some(500)
    /\ Len(send.posts) = 1

\* C10 as claimed: whatever happens to the POST, a network-level failure
\* included, no error reaches the caller and the call completes normally.
SendNeverSurfacesAnError ==
    send.pc # "awaiting" => (send.pc # "rejected" /\ send.error = Nothing)

\* C10 amended: a delivery the server refused (an HTTP error status) is
\* swallowed, the call completing normally; a network-level failure of the
\* POST is not caught and rejects the call with the network error.
SendSwallowsStatusButNotNetworkFailure ==
    /\ (send.status # Nothing /\ send.status[1] >= 400)
          => (send.pc = "fulfilled" /\ send.error = Nothing)
    /\ (send.pc \in {"fulfilled", "rejected"} /\ send.status = Nothing)
          => (send.pc = "rejected" /\ send.error \in {Some(e) : e \in NetworkErrors})
    /\ send.pc = "rejected" => send.status = Nothing

SendRejectedOnNetworkFailure ==
    /\ send.pc = "rejected"
    /\ send.error = Some([name |-> "TypeError", message |-> "Network request failed"])
    /\ Len(send.posts) = 1

\* C11: an activation made once the guard is true (any activation but the
\* first) never invokes the Registration Procedure and attaches no listener,
\* so its token stays "" and its notification list stays empty.
LaterActivationIsInert ==
    /\ [](\A i \in 2..Len(activations) :
            LET v == activations[i] IN
            /\ reg[v] = NotInvoked
            /\ v \notin receivedListeners
            /\ v \notin responseListeners
            /\ expoPushToken[v] = ""
            /\ notifications[v] = <<>>)
    /\ [][\A v \in Views :
            (areListenersReady /\ phase[v] = "unmounted" /\ phase'[v] = "mounted")
               => /\ reg' = reg
                  /\ UNCHANGED <<receivedListeners, responseListeners>>]_vars

LaterActivationStaysEmpty ==
    /\ Len(activations) = 2
    /\ reg[activations[1]].pc = "settled"
    /\ expoPushToken[activations[1]] # ""
    /\ notifications[activations[1]] # <<>>
    /\ phase[activations[2]] = "mounted"
    /\ expoPushToken[activations[2]] = ""
    /\ notifications[activations[2]] = <<>>

\* C12: the teardown of the view that attached the listeners detaches both
\* of them, and from then on no listener of either kind is attached, whatever
\* mounts and unmounts follow.
TeardownDetachesForGood ==
    /\ [](\A v \in Views :
            phase[v] = "torn"
               => (v \notin receivedListeners /\ v \notin responseListeners))
    /\ []((activations # <<>> /\ phase[activations[1]] = "torn")
             => (receivedListeners = {} /\ responseListeners = {}))
    /\ [][(areListenersReady /\ receivedListeners = {} /\ responseListeners = {})
             => (receivedListeners' = {} /\ responseListeners' = {})]_vars

NoListenerAfterRemount ==
    /\ Len(activations) = 2
    /\ phase[activations[1]] = "torn"
    /\ delivered[activations[1]] # <<>>
    /\ phase[activations[2]] = "mounted"
    /\ receivedListeners = {}
    /\ responseListeners = {}

\* C13: the guard starts false, is true from the first listener attachment
\* (the first activation) on, and no step sets it back to false.
GuardIsMonotonic ==
    /\ ~areListenersReady
    /\ [](areListenersReady <=> activations # <<>>)
    /\ []((receivedListeners # {} \/ responseListeners # {}) => areListenersReady)
    /\ [][areListenersReady => areListenersReady']_vars

GuardSurvivesTeardown ==
    /\ areListenersReady
    /\ \A v \in Views : phase[v] = "torn"
    /\ \E v \in Views : reg[v].pc = "settled" /\ delivered[v] # <<>>

\* C14: within an invocation the permission request is issued exactly once
\* when the queried status is not granted and never when it is granted; a
\* status still not granted after the request fails the invocation with the
\* permission error, with no project-id resolution and no token fetch.
PermissionRequestedOnceAtMost ==
    \A v \in Views :
       /\ reg[v].existingStatus = Nothing => reg[v].permRequests = 0
       /\ reg[v].existingStatus = Some("granted") => reg[v].permRequests = 0
       /\ (reg[v].existingStatus # Nothing /\ reg[v].existingStatus # Some("granted"))
             => reg[v].permRequests = 1
       /\ (reg[v].finalStatus # Nothing /\ reg[v].finalStatus # Some("granted"))
             => /\ reg[v].pc \in {"rejected", "settled"}
                /\ reg[v].error = Some(Error(
                      "Permission not granted to get push token for push notification!"))
                /\ reg[v].projectIdReads = 0
                /\ reg[v].tokenFetches = 0
                /\ reg[v].result = Nothing

PermissionStillUndeterminedRejected ==
    \E v \in Views :
       /\ reg[v].existingStatus = Some("denied")
       /\ reg[v].permRequests = 1
       /\ reg[v].finalStatus = Some("undetermined")
       /\ reg[v].pc = "rejected"

\* C15: an unmount leaves an invocation in flight as it is, and a promise
\* that settles for a view already torn down is still handled: its token or
\* stringified error is written to that view's token state.
ResolutionAppliedAfterUnmount ==
    /\ [][\A v \in Views :
            (phase[v] = "mounted" /\ phase'[v] = "torn") => reg'[v] = reg[v]]_vars
    /\ [](\A v \in Views :
            reg[v].handledWhile = Some("torn")
               => /\ reg[v].result # Nothing => expoPushToken[v] = reg[v].result[1]
                  /\ reg[v].error # Nothing
                        => expoPushToken[v] = "Error: " \o reg[v].error[1].message)
    /\ \A v \in Views :
          (phase[v] = "torn" /\ reg[v].pc \in {"fulfilled", "rejected"})
             ~> (reg[v].handledWhile = Some("torn") /\ expoPushToken[v] # "")

TokenStoredAfterUnmount ==
    \E v \in Views :
       /\ phase[v] = "torn"
       /\ reg[v].handledWhile = Some("torn")
       /\ expoPushToken[v] = "ExponentPushToken[abc123]"

\* C16: an invocation calls the provider's token fetch at most once; when
\* the provider throws, the invocation ends with an error whose message is
\* the stringified provider error, after that single fetch.
TokenFetchedOnceAtMost ==
    \A v \in Views :
       /\ reg[v].tokenFetches <= 1
       /\ reg[v].pc = "fetch" => reg[v].tokenFetches = 1
       /\ reg[v].providerError # Nothing
             => /\ reg[v].tokenFetches = 1
                /\ reg[v].pc \in {"rejected", "settled"}
                /\ reg[v].result = Nothing
                /\ reg[v].error =
                      Some(Error(IF reg[v].providerError[1].message = ""
                                 THEN "Error"
                                 ELSE "Error: " \o reg[v].providerError[1].message))

ProviderMessageShown ==
    \E v \in Views :
       /\ reg[v].providerError = Some(Error("network down"))
       /\ reg[v].tokenFetches = 1
       /\ reg[v].pc = "settled"
       /\ expoPushToken[v] = "Error: Error: network down"

\* C17: a 'notification response' event (a step in which the response
\* listener logs) leaves every view's token, every view's notification list
\* and the guard unchanged.
ResponseOnlyObserves ==
    [][consoleLog' # consoleLog
          => UNCHANGED <<expoPushToken, notifications, areListenersReady>>]_vars

ResponseLoggedBesideState ==
    /\ consoleLog > 0
    /\ areListenersReady
    /\ \E v \in Views : notifications[v] # <<>> /\ expoPushToken[v] # ""

\* C18: in every reachable state at most one 'notification received'
\* listener and at most one 'notification response' listener are active, and
\* at most one hook instance has ever been handed a notification, so at most
\* one notification list is non-empty.
AtMostOneListenerProcessWide ==
    /\ Cardinality(receivedListeners) <= 1
    /\ Cardinality(responseListeners) <= 1
    /\ Cardinality({v \in Views : delivered[v] # <<>>}) <= 1
    /\ Cardinality({v \in Views : notifications[v] # <<>>}) <= 1

OneListenerAmongSeveralViews ==
    /\ \A v \in Views : phase[v] = "mounted"
    /\ Cardinality(receivedListeners) = 1
    /\ Cardinality(responseListeners) = 1
    /\ Cardinality({v \in Views : notifications[v] # <<>>}) = 1
    /\ arrivals = MaxArrivals

=============================================================================
